---- MODULE Spec2Model ----
(***************************************************************************)
(* Model of src/throttle.py: throttle(current_func, period) returns        *)
(* throttled_function; every call of throttled_function registers and      *)
(* starts one thread running threaded_call, which loops until it may run   *)
(* current_func.                                                           *)
(*                                                                         *)
(* Time. time.time() is modelled by the variable clock, counted in         *)
(* milliseconds; the code compares seconds as floats                       *)
(* (now - last_execution_time >= period / 1000.0), the model compares the  *)
(* same quantities multiplied by 1000 (see PeriodInSeconds).  The clock    *)
(* never goes back (Tick).                                                 *)
(*                                                                         *)
(* Threads. Call c of throttled_function is made by caller thread c and    *)
(* creates thread c (the local t of that call), so Calls indexes both.     *)
(* A failed lock.acquire(False) (line 51-52) changes nothing and is a      *)
(* stuttering step of the model.                                           *)
(***************************************************************************)
EXTENDS Integers, Sequences, FiniteSets, TLC

\* Number of caller threads of throttled_function (as in the __main__ block,
\* lines 128-130); each creates at most one thread.
NumCalls == 2

\* THREAD_POOL_SIZE is 50 in the source (line 15); scaled down so that the
\* full pool is reached by NumCalls calls.
THREAD_POOL_SIZE == 1

\* Largest value of the clock, in milliseconds.
MaxTime == 2

\* Largest period (milliseconds) given to throttle().
MaxPeriod == 2

Calls == 1..NumCalls

\* The divisor of line 60: milliseconds in a second.
MsPerSecond == 1000

\* Python's None, for exec_list[0] and for locals not in scope.
None == -1

\* Nobody holds exec_list[1].
NoHolder == <<"none", 0>>

Invoker(c) == <<"invoker", c>>

Task(t) == <<"task", t>>

VARIABLES
    clock,                \* time.time(), in milliseconds
    period,               \* the period argument of throttle()
    lastExec,             \* exec_list[0]
    lock,                 \* exec_list[1]: NoHolder, or the thread that acquired it
    thread_pool,          \* thread_pool, a list of threads (line 16)
    ipc,                  \* position of call c inside throttled_function
    tpc,                  \* position of thread t inside threaded_call
    now,                  \* threaded_call's local now (line 59)
    last_execution_time,  \* threaded_call's local last_execution_time (line 55); it
                          \* keeps its value until the next iteration reads again
    wake,                 \* earliest clock at which thread t's time.sleep returns
    exc,                  \* TRUE while an exception of current_func is in flight in t
    execLog,              \* history: one record per call of current_func
    rejected,             \* history: caller c has had a call end in the pool-full error
    inside,               \* inside[c] = t: call c of throttled_function is made by
                          \* thread t from within current_func; 0: by a caller thread
    counting,             \* whether the history variable credit is kept (CountSpec)
    credit                \* history, for a thread t inside its loop: 1 + the number of
                          \* executions begun by other threads since t was registered
                          \* - the number of t's failed gate checks

vars == <<clock, period, lastExec, lock, thread_pool, ipc, tpc, now,
          last_execution_time, wake, exc, execLog, rejected, inside, counting, credit>>

\* period_in_seconds = period / 1000.0 (line 60).  A time of x seconds is held
\* as the integer x * MsPerSecond, so period / 1000.0 seconds is held as
\* (period * MsPerSecond) / 1000.
PeriodInSeconds(p) == (p * MsPerSecond) \div MsPerSecond

\* Thread.is_alive(): true from start() until the thread's run ends; false
\* for a thread that was created and not started, and for one that ended.
IsAlive(pcv) == pcv \in {"spin", "acquired", "executing", "finally", "sleeping", "exiting"}

\* Line 64: last_execution_time is None or now - last_execution_time >= period_in_seconds.
GateOffByOne(last, n, p) == last = None \/ n - last >= PeriodInSeconds(p) - 1

GateStrict(last, n, p) == last = None \/ n - last > PeriodInSeconds(p)

GatePasses(last, n, p) == last = None \/ n - last >= PeriodInSeconds(p)

\* Line 86: the argument of time.sleep.
SleepDurationSwapped(last, n, p) == PeriodInSeconds(p) - (last - n)

SleepDuration(last, n, p) == PeriodInSeconds(p) - (n - last)

\* Line 71: exec_list[0] = time.time(), in the finally block, so whether or
\* not current_func raised.
TimestampOnlyOnSuccess(old, raised, clk) == IF raised THEN old ELSE clk

TimestampResetOnFailure(old, raised, clk) == IF raised THEN None ELSE clk

NewTimestamp(old, raised, clk) == clk

\* Lines 69-77: the break inside the finally block discards an exception in
\* flight, so the loop is left the same way after a raise as after a return.
FinallyPropagates(raised) == IF raised THEN "crashed" ELSE "exiting"

FinallyContinues(raised) == "spin"

AfterFinally(raised) == "exiting"

\* Line 98-100: stopped_threads are the threads that are not alive; they are
\* removed from thread_pool.  (The comprehension is taken as one snapshot.)
Prune(pool, pcs) == SelectSeq(pool, LAMBDA t : IsAlive(pcs[t]))

\* Line 104.
PoolFullOffByOne(pool) == Len(pool) = THREAD_POOL_SIZE + 1

PoolFull(pool) == Len(pool) = THREAD_POOL_SIZE

TypeOK ==
    /\ clock \in 0..MaxTime
    /\ period \in 0..MaxPeriod
    /\ lastExec \in {None} \cup 0..MaxTime
    /\ lock \in {NoHolder} \cup {Invoker(c) : c \in Calls} \cup {Task(c) : c \in Calls}
    /\ ipc \in [Calls -> {"idle", "lock", "prune", "check", "start", "returned", "raised"}]
    /\ tpc \in [Calls -> {"none", "registered", "spin", "acquired", "executing", "finally",
                          "sleeping", "exiting", "done", "crashed"}]
    /\ exc \in [Calls -> BOOLEAN]
    /\ rejected \in [Calls -> BOOLEAN]
    /\ inside \in [Calls -> 0..NumCalls]
    /\ counting \in BOOLEAN
    /\ credit \in [Calls -> Int]

\* throttle() has run (lines 15-22, 118): empty pool, exec_list = [None, Lock()].
Init ==
    /\ clock = 0
    /\ period \in 0..MaxPeriod
    /\ lastExec = None
    /\ lock = NoHolder
    /\ thread_pool = <<>>
    /\ ipc = [c \in Calls |-> "idle"]
    /\ tpc = [c \in Calls |-> "none"]
    /\ now = [c \in Calls |-> None]
    /\ last_execution_time = [c \in Calls |-> None]
    /\ wake = [c \in Calls |-> None]
    /\ exc = [c \in Calls |-> FALSE]
    /\ execLog = <<>>
    /\ rejected = [c \in Calls |-> FALSE]
    /\ inside = [c \in Calls |-> 0]
    /\ counting = FALSE
    /\ credit = [c \in Calls |-> 0]

\* The clock advances.
Tick ==
    /\ clock < MaxTime
    /\ clock' = clock + 1
    /\ UNCHANGED <<period, lastExec, lock, thread_pool, ipc, tpc, now,
                   last_execution_time, wake, exc, execLog, rejected,
                   counting, credit, inside>>

\* A caller thread enters throttled_function and reaches lock.acquire() (line 95).
InvCall(c) ==
    /\ ipc[c] = "idle"
    /\ ipc' = [ipc EXCEPT ![c] = "lock"]
    /\ UNCHANGED <<clock, period, lastExec, lock, thread_pool, tpc, now,
                   last_execution_time, wake, exc, execLog, rejected,
                   counting, credit, inside>>

\* The caller thread whose call ended in the pool-full error calls
\* throttled_function again (no thread was created for it).
InvRetry(c) ==
    /\ ipc[c] = "raised"
    /\ ipc' = [ipc EXCEPT ![c] = "lock"]
    /\ UNCHANGED <<clock, period, lastExec, lock, thread_pool, tpc, now,
                   last_execution_time, wake, exc, execLog, rejected,
                   counting, credit, inside>>

\* current_func is not inside a call of throttled_function that it made
\* itself (such a call is synchronous: current_func goes on when it ends).
NoCallInside(t) ==
    \A c \in Calls : inside[c] = t => ipc[c] \in {"returned", "raised"}

\* Line 68 then line 95: current_func, run by thread t, calls
\* throttled_function of the same limiter and reaches lock.acquire().
InvCallFromAction(c, t) ==
    /\ ipc[c] \in {"idle", "raised"}
    /\ tpc[t] = "executing"
    /\ NoCallInside(t)
    /\ ipc' = [ipc EXCEPT ![c] = "lock"]
    /\ inside' = [inside EXCEPT ![c] = t]
    /\ UNCHANGED <<clock, period, lastExec, lock, thread_pool, tpc, now,
                   last_execution_time, wake, exc, execLog, rejected,
                   counting, credit>>

\* exec_list[1] as a re-entrant lock.
InvAcquireReentrant(c) ==
    /\ ipc[c] = "lock"
    /\ lock = NoHolder \/ (inside[c] # 0 /\ lock = Task(inside[c]))
    /\ lock' = Invoker(c)
    /\ ipc' = [ipc EXCEPT ![c] = "prune"]
    /\ UNCHANGED <<clock, period, lastExec, thread_pool, tpc, now,
                   last_execution_time, wake, exc, execLog, rejected,
                   counting, credit, inside>>

InvSkipsLock(c) ==
    /\ ipc[c] = "lock"
    /\ ipc' = [ipc EXCEPT ![c] = "prune"]
    /\ UNCHANGED <<clock, period, lastExec, lock, thread_pool, tpc, now,
                   last_execution_time, wake, exc, execLog, rejected,
                   counting, credit, inside>>

\* Line 95: the blocking lock.acquire() returns.
InvAcquire(c) ==
    /\ ipc[c] = "lock"
    /\ lock = NoHolder
    /\ lock' = Invoker(c)
    /\ ipc' = [ipc EXCEPT ![c] = "prune"]
    /\ UNCHANGED <<clock, period, lastExec, thread_pool, tpc, now,
                   last_execution_time, wake, exc, execLog, rejected,
                   counting, credit, inside>>

\* Lines 98-100: remove the threads that are not alive.
InvPrune(c) ==
    /\ ipc[c] = "prune"
    /\ thread_pool' = Prune(thread_pool, tpc)
    /\ ipc' = [ipc EXCEPT ![c] = "check"]
    /\ UNCHANGED <<clock, period, lastExec, lock, tpc, now,
                   last_execution_time, wake, exc, execLog, rejected,
                   counting, credit, inside>>

\* Lines 103-105, 112-113: the pool is full; the exception leaves the try
\* block through finally, which releases the lock; line 116 is not reached.
RejectKeepsLock(c) ==
    /\ ipc[c] = "check"
    /\ PoolFull(thread_pool)
    /\ ipc' = [ipc EXCEPT ![c] = "raised"]
    /\ rejected' = [rejected EXCEPT ![c] = TRUE]
    /\ UNCHANGED <<clock, period, lastExec, lock, thread_pool, tpc, now,
                   last_execution_time, wake, exc, execLog,
                   counting, credit, inside>>

InvReject(c) ==
    /\ ipc[c] = "check"
    /\ PoolFull(thread_pool)
    /\ lock' = NoHolder
    /\ ipc' = [ipc EXCEPT ![c] = "raised"]
    /\ rejected' = [rejected EXCEPT ![c] = TRUE]
    /\ UNCHANGED <<clock, period, lastExec, thread_pool, tpc, now,
                   last_execution_time, wake, exc, execLog,
                   counting, credit, inside>>

\* Lines 103-113: the pool is not full; the thread is built (not started),
\* appended to the pool, and the lock is released.
InvRegister(c) ==
    /\ ipc[c] = "check"
    /\ ~PoolFull(thread_pool)
    /\ thread_pool' = Append(thread_pool, c)
    /\ tpc' = [tpc EXCEPT ![c] = "registered"]
    /\ lock' = NoHolder
    /\ ipc' = [ipc EXCEPT ![c] = "start"]
    /\ credit' = IF counting THEN [credit EXCEPT ![c] = 1] ELSE credit
    /\ UNCHANGED <<clock, period, lastExec, now,
                   last_execution_time, wake, exc, execLog, rejected, counting, inside>>

\* Line 116: t.start(); throttled_function returns.
InvStart(c) ==
    /\ ipc[c] = "start"
    /\ tpc' = [tpc EXCEPT ![c] = "spin"]
    /\ ipc' = [ipc EXCEPT ![c] = "returned"]
    /\ UNCHANGED <<clock, period, lastExec, lock, thread_pool, now,
                   last_execution_time, wake, exc, execLog, rejected,
                   counting, credit, inside>>

\* Lines 47-60: lock.acquire(False) succeeds; exec_list[0] and the time are read.
TaskAcquire(t) ==
    /\ tpc[t] = "spin"
    /\ lock = NoHolder
    /\ lock' = Task(t)
    /\ last_execution_time' = [last_execution_time EXCEPT ![t] = lastExec]
    /\ now' = [now EXCEPT ![t] = clock]
    /\ tpc' = [tpc EXCEPT ![t] = "acquired"]
    /\ UNCHANGED <<clock, period, lastExec, thread_pool, ipc, wake, exc, execLog, rejected,
                   counting, credit, inside>>

\* Lines 64-68: the gate passes; current_func is called.
\* The history credit when thread t begins an execution: t has left its
\* loop; every other thread inside its loop has one more execution by
\* another thread since it was registered.
CreditAfterExecution(t) ==
    [u \in Calls |->
        IF u = t THEN 0
        ELSE IF tpc[u] \in {"registered", "spin", "acquired", "sleeping"}
             THEN credit[u] + 1
             ELSE credit[u]]

ExecuteReleasesLock(t) ==
    /\ tpc[t] = "acquired"
    /\ GatePasses(last_execution_time[t], now[t], period)
    /\ lock' = NoHolder
    /\ tpc' = [tpc EXCEPT ![t] = "executing"]
    /\ execLog' = Append(execLog, [task |-> t, begin |-> clock, finish |-> None, raised |-> FALSE])
    /\ now' = [now EXCEPT ![t] = None]
    /\ last_execution_time' = [last_execution_time EXCEPT ![t] = None]
    /\ credit' = IF counting THEN CreditAfterExecution(t) ELSE credit
    /\ UNCHANGED <<clock, period, lastExec, thread_pool, ipc, wake, exc, rejected, counting, inside>>

TaskExecute(t) ==
    /\ tpc[t] = "acquired"
    /\ GatePasses(last_execution_time[t], now[t], period)
    /\ tpc' = [tpc EXCEPT ![t] = "executing"]
    /\ execLog' = Append(execLog, [task |-> t, begin |-> clock, finish |-> None, raised |-> FALSE])
    /\ now' = [now EXCEPT ![t] = None]
    /\ last_execution_time' = [last_execution_time EXCEPT ![t] = None]
    /\ credit' = IF counting THEN CreditAfterExecution(t) ELSE credit
    /\ UNCHANGED <<clock, period, lastExec, lock, thread_pool, ipc, wake, exc, rejected, counting, inside>>

\* Lines 78-86: the gate fails; the lock is released and time.sleep is called.
\* time.sleep raises ValueError on a negative argument, which ends the thread.
GateOutKeepsLock(t) ==
    /\ tpc[t] = "acquired"
    /\ ~GatePasses(last_execution_time[t], now[t], period)
    /\ LET d == SleepDuration(last_execution_time[t], now[t], period)
       IN  IF d < 0
           THEN /\ tpc' = [tpc EXCEPT ![t] = "crashed"]
                /\ wake' = wake
           ELSE /\ tpc' = [tpc EXCEPT ![t] = "sleeping"]
                /\ wake' = [wake EXCEPT ![t] = clock + d]
    /\ now' = [now EXCEPT ![t] = None]
    /\ credit' = IF counting THEN [credit EXCEPT ![t] = @ - 1] ELSE credit
    /\ UNCHANGED <<clock, period, lastExec, lock, thread_pool, ipc, exc, execLog, rejected,
                   last_execution_time, counting, inside>>

TaskGateOut(t) ==
    /\ tpc[t] = "acquired"
    /\ ~GatePasses(last_execution_time[t], now[t], period)
    /\ lock' = NoHolder
    /\ LET d == SleepDuration(last_execution_time[t], now[t], period)
       IN  IF d < 0
           THEN /\ tpc' = [tpc EXCEPT ![t] = "crashed"]
                /\ wake' = wake
           ELSE /\ tpc' = [tpc EXCEPT ![t] = "sleeping"]
                /\ wake' = [wake EXCEPT ![t] = clock + d]
    /\ now' = [now EXCEPT ![t] = None]
    /\ credit' = IF counting THEN [credit EXCEPT ![t] = @ - 1] ELSE credit
    /\ UNCHANGED <<clock, period, lastExec, thread_pool, ipc, exc, execLog, rejected,
                   last_execution_time, counting, inside>>

WakeEarly(t) ==
    /\ tpc[t] = "sleeping"
    /\ clock >= wake[t] - 1
    /\ tpc' = [tpc EXCEPT ![t] = "spin"]
    /\ wake' = [wake EXCEPT ![t] = None]
    /\ UNCHANGED <<clock, period, lastExec, lock, thread_pool, ipc, now,
                   last_execution_time, exc, execLog, rejected,
                   counting, credit, inside>>

\* Line 86: time.sleep returns, not before the requested duration has passed;
\* the loop goes back to line 51.
TaskWake(t) ==
    /\ tpc[t] = "sleeping"
    /\ clock >= wake[t]
    /\ tpc' = [tpc EXCEPT ![t] = "spin"]
    /\ wake' = [wake EXCEPT ![t] = None]
    /\ UNCHANGED <<clock, period, lastExec, lock, thread_pool, ipc, now,
                   last_execution_time, exc, execLog, rejected,
                   counting, credit, inside>>

\* Line 68: current_func returns.
TaskActionReturns(t) ==
    /\ tpc[t] = "executing"
    /\ NoCallInside(t)
    /\ tpc' = [tpc EXCEPT ![t] = "finally"]
    /\ UNCHANGED <<clock, period, lastExec, lock, thread_pool, ipc, now,
                   last_execution_time, wake, exc, execLog, rejected,
                   counting, credit, inside>>

\* Line 68: current_func raises.
TaskActionRaises(t) ==
    /\ tpc[t] = "executing"
    /\ NoCallInside(t)
    /\ tpc' = [tpc EXCEPT ![t] = "finally"]
    /\ exc' = [exc EXCEPT ![t] = TRUE]
    /\ execLog' = [execLog EXCEPT ![Len(execLog)].raised = TRUE]
    /\ UNCHANGED <<clock, period, lastExec, lock, thread_pool, ipc, now,
                   last_execution_time, wake, rejected,
                   counting, credit, inside>>

\* Lines 69-77: the finally block writes exec_list[0], releases the lock
\* and breaks out of the loop.
FinallyStampsStart(t) ==
    /\ tpc[t] = "finally"
    /\ lastExec' = execLog[Len(execLog)].begin
    /\ lock' = NoHolder
    /\ tpc' = [tpc EXCEPT ![t] = AfterFinally(exc[t])]
    /\ exc' = [exc EXCEPT ![t] = FALSE]
    /\ execLog' = [execLog EXCEPT ![Len(execLog)].finish = clock]
    /\ UNCHANGED <<clock, period, thread_pool, ipc, now, last_execution_time, wake,
                   rejected,
                   counting, credit, inside>>

TaskFinally(t) ==
    /\ tpc[t] = "finally"
    /\ lastExec' = NewTimestamp(lastExec, exc[t], clock)
    /\ lock' = NoHolder
    /\ tpc' = [tpc EXCEPT ![t] = AfterFinally(exc[t])]
    /\ exc' = [exc EXCEPT ![t] = FALSE]
    /\ execLog' = [execLog EXCEPT ![Len(execLog)].finish = clock]
    /\ UNCHANGED <<clock, period, thread_pool, ipc, now, last_execution_time, wake,
                   rejected,
                   counting, credit, inside>>

\* Line 89: threaded_call returns and the thread ends.
TaskExit(t) ==
    /\ tpc[t] = "exiting"
    /\ tpc' = [tpc EXCEPT ![t] = "done"]
    /\ UNCHANGED <<clock, period, lastExec, lock, thread_pool, ipc, now,
                   last_execution_time, wake, exc, execLog, rejected,
                   counting, credit, inside>>

InvStep(c) ==
    \/ InvAcquire(c)
    \/ InvPrune(c)
    \/ InvReject(c)
    \/ InvRegister(c)
    \/ InvStart(c)

TaskStep(t) ==
    \/ TaskAcquire(t)
    \/ TaskExecute(t)
    \/ TaskGateOut(t)
    \/ TaskWake(t)
    \/ TaskActionReturns(t)
    \/ TaskActionRaises(t)
    \/ TaskFinally(t)
    \/ TaskExit(t)

Next ==
    \/ Tick
    \/ \E c \in Calls : InvCall(c)
    \/ \E c \in Calls : InvRetry(c)
    \/ \E c \in Calls : InvStep(c)
    \/ \E t \in Calls : TaskStep(t)

Spec == Init /\ [][Next]_vars

\* The same program with the history variable credit kept; every caller
\* calls once.
CountInit ==
    /\ clock = 0
    /\ period \in 0..MaxPeriod
    /\ lastExec = None
    /\ lock = NoHolder
    /\ thread_pool = <<>>
    /\ ipc = [c \in Calls |-> "idle"]
    /\ tpc = [c \in Calls |-> "none"]
    /\ now = [c \in Calls |-> None]
    /\ last_execution_time = [c \in Calls |-> None]
    /\ wake = [c \in Calls |-> None]
    /\ exc = [c \in Calls |-> FALSE]
    /\ execLog = <<>>
    /\ rejected = [c \in Calls |-> FALSE]
    /\ inside = [c \in Calls |-> 0]
    /\ counting = TRUE
    /\ credit = [c \in Calls |-> 0]

CountNext ==
    \/ Tick
    \/ \E c \in Calls : InvCall(c)
    \/ \E c \in Calls : InvStep(c)
    \/ \E t \in Calls : TaskStep(t)

CountSpec == CountInit /\ [][CountNext]_vars

\* The program with a current_func that may call throttled_function of its
\* own limiter.
ReentrantNext ==
    \/ Tick
    \/ \E c \in Calls : InvCall(c)
    \/ \E c, t \in Calls : InvCallFromAction(c, t)
    \/ \E c \in Calls : InvStep(c)
    \/ \E t \in Calls : TaskStep(t)

ReentrantSpec == Init /\ [][ReentrantNext]_vars

\* Time passes while some thread sleeps in time.sleep (line 86) and its
\* duration has not passed yet.
LiveTick ==
    /\ \E t \in Calls : tpc[t] = "sleeping" /\ wake[t] > clock
    /\ clock' = clock + 1
    /\ UNCHANGED <<period, lastExec, lock, thread_pool, ipc, tpc, now,
                   last_execution_time, wake, exc, execLog, rejected,
                   counting, credit, inside>>

\* Finitely many invocations (each caller calls once), time that advances
\* for the sleepers, and a scheduler that is fair to every started call and
\* every thread; current_func terminates (TaskActionReturns, TaskActionRaises).
LiveNext ==
    \/ LiveTick
    \/ \E c \in Calls : InvCall(c)
    \/ \E c \in Calls : InvStep(c)
    \/ \E t \in Calls : TaskStep(t)

Fairness ==
    /\ WF_vars(LiveTick)
    /\ \A c \in Calls : WF_vars(InvStep(c))
    /\ \A t \in Calls : WF_vars(TaskStep(t))

LiveSpec == Init /\ [][LiveNext]_vars /\ Fairness

(***************************************************************************)
(* Properties                                                              *)
(***************************************************************************)

\* Number of calls of current_func made by thread t.
ExecCount(t) == Cardinality({k \in DOMAIN execLog : execLog[k].task = t})

\* Thread t has been admitted and its run has not ended.
Pending(t) == tpc[t] \in {"registered", "spin", "acquired", "executing", "finally",
                          "sleeping", "exiting"}

PendingCount == Cardinality({t \in Calls : Pending(t)})

\* C1. At most one execution per period: with period > 0, any two calls of
\* current_func begin at least period apart.
C1_AtMostOnePerPeriod ==
    period > 0 =>
        \A j, k \in DOMAIN execLog :
            j < k => execLog[k].begin - execLog[j].begin >= PeriodInSeconds(period)

\* C1 witness: two executions have begun under a positive period.
C1_Witness == period > 0 /\ Len(execLog) >= 2

\* Every admitted call has led to exactly one call of current_func by its
\* thread, which has ended; the executions number the admitted calls.
AllSettled ==
    /\ \A t \in Calls : tpc[t] # "none" => (tpc[t] = "done" /\ ExecCount(t) = 1)
    /\ Len(execLog) = Cardinality({t \in Calls : tpc[t] # "none"})

\* C2. No silent loss: eventually, and from then on, every admitted call has
\* been executed exactly once (execLog only grows, so no thread ever
\* executes twice) and the number of executions equals the number of
\* admitted calls.
C2_NoSilentLoss == <>[]AllSettled

\* C2 witness: every caller was admitted, some thread had to sleep through
\* the period (the executions are a period apart), and all threads ended
\* after one execution each.
C2_Witness ==
    /\ period > 0
    /\ \A t \in Calls : tpc[t] = "done" /\ ExecCount(t) = 1
    /\ Len(execLog) = NumCalls

\* C3. Capacity enforcement, as claimed: a call that reaches the capacity
\* check while THREAD_POOL_SIZE admitted threads have not completed ends in
\* the pool-full error, creates no thread and causes no execution.
C3_CapacityEnforced ==
    [][\A c \in Calls :
          (ipc[c] = "check" /\ ipc'[c] # "check" /\ PendingCount = THREAD_POOL_SIZE)
              => (ipc'[c] = "raised" /\ tpc'[c] = "none" /\ execLog' = execLog)]_vars

\* C4. As claimed: the admitted threads that have not completed never
\* number more than THREAD_POOL_SIZE.
C4_PendingBounded == PendingCount <= THREAD_POOL_SIZE

\* C5. As claimed: a caller inside throttled_function never has to wait for
\* a thread that is running current_func; its next step is possible.
C5_InvokerNeverWaitsForAction ==
    \A c \in Calls :
        (ipc[c] = "lock" /\ \E t \in Calls : tpc[t] = "executing")
            => ENABLED InvAcquire(c)

\* C6. Failure isolation: once an execution that raised has gone through
\* the finally block, exec_list[0] is set to a time not before it, the lock
\* is no longer held by that thread, and every later execution begins at
\* least period after the failed one.
C6_FailureIsolation ==
    \A j \in DOMAIN execLog :
        (execLog[j].raised /\ execLog[j].finish # None) =>
            /\ lastExec # None
            /\ lastExec >= execLog[j].finish
            /\ lock # Task(execLog[j].task)
            /\ \A k \in DOMAIN execLog :
                   k > j => execLog[k].begin - execLog[j].finish >= PeriodInSeconds(period)

\* C6 witness: under a positive period an execution raised and another
\* execution began after it.
C6_Witness ==
    /\ period > 0
    /\ \E j, k \in DOMAIN execLog : j < k /\ execLog[j].raised

\* C7. The action's error is swallowed: after an execution that raised, the
\* thread has left the loop and ends as after a success (no exception in
\* flight, never crashed); the call that created it returned normally, and
\* a call that ended in an error is a pool-full rejection (no thread).
C7_ActionErrorSwallowed ==
    /\ \A j \in DOMAIN execLog :
           (execLog[j].raised /\ execLog[j].finish # None) =>
               /\ tpc[execLog[j].task] \in {"exiting", "done"}
               /\ ~exc[execLog[j].task]
               /\ ipc[execLog[j].task] = "returned"
    /\ \A c \in Calls : ipc[c] = "raised" => (tpc[c] = "none" /\ rejected[c])

\* C7 witness: a thread whose execution raised has ended.
C7_Witness ==
    \E j \in DOMAIN execLog : execLog[j].raised /\ tpc[execLog[j].task] = "done"

\* C8. Timestamp monotonicity: once exec_list[0] is set, every step leaves
\* it set and not smaller.
C8_TimestampMonotone ==
    [][lastExec # None => (lastExec' # None /\ lastExec' >= lastExec)]_vars

\* C8 witness: exec_list[0] has been written twice, the second time with a
\* later value.
C8_Witness ==
    /\ Len(execLog) >= 2
    /\ execLog[2].finish # None
    /\ lastExec = execLog[2].finish
    /\ lastExec > execLog[1].finish

\* C9. thread_pool never holds more than THREAD_POOL_SIZE threads, and a
\* caller between its prune and its registration holds the lock, so no
\* other caller is at those steps.
C9_PoolBounded ==
    /\ Len(thread_pool) <= THREAD_POOL_SIZE
    /\ \A c \in Calls : ipc[c] \in {"prune", "check"} => lock = Invoker(c)

\* C9 witness: the pool is full of started threads while a caller, holding
\* the lock, is at the capacity check.
C9_Witness ==
    /\ Len(thread_pool) = THREAD_POOL_SIZE
    /\ \A k \in DOMAIN thread_pool : IsAlive(tpc[thread_pool[k]])
    /\ \E c \in Calls : ipc[c] = "check" /\ lock = Invoker(c)

\* C10. A rejected call has no lasting effect: the step that ends a call in
\* the pool-full error leaves the lock free and leaves thread_pool, the
\* threads and exec_list[0] as they were.
C10_RejectionHasNoEffect ==
    [][\A c \in Calls :
          (ipc[c] = "check" /\ ipc'[c] = "raised") =>
              /\ lock' = NoHolder
              /\ thread_pool' = thread_pool
              /\ tpc' = tpc
              /\ lastExec' = lastExec
              /\ execLog' = execLog]_vars

\* C10 witness: a caller that was rejected called again after a pending
\* thread had ended, and was admitted.
C10_Witness ==
    \E c, d \in Calls :
        /\ c # d
        /\ rejected[c]
        /\ tpc[d] = "done"
        /\ tpc[c] # "none"

\* C11. Mutual exclusion of executions: at most one thread is inside
\* current_func or its finally block, and a thread holds the lock from its
\* gate check until it has written exec_list[0].
C11_ExecutionsExclusive ==
    /\ Cardinality({t \in Calls : tpc[t] \in {"executing", "finally"}}) <= 1
    /\ \A t \in Calls : tpc[t] \in {"acquired", "executing", "finally"} => lock = Task(t)

\* C11 witness: a thread is running current_func while another thread is
\* started and polling for the lock.
C11_Witness ==
    \E t, u \in Calls : t # u /\ tpc[t] = "executing" /\ tpc[u] = "spin"

\* C12. No sleeping thread holds the lock.
C12_SleeperHoldsNoLock ==
    \A t \in Calls : tpc[t] = "sleeping" => lock # Task(t)

\* C12 witness: a gated-out thread is asleep, its sleep not yet over, and
\* the lock is free for the others.
C12_Witness ==
    \E t \in Calls : tpc[t] = "sleeping" /\ wake[t] > clock /\ lock = NoHolder

\* The threads held by a list.
Members(pool) == {pool[k] : k \in DOMAIN pool}

\* C14. As claimed: a step removes a thread from thread_pool only if that
\* thread's run has ended; a registered, unstarted thread is never removed.
C14_PruneOnlyCompleted ==
    [][\A t \in Calls :
          (t \in Members(thread_pool) /\ t \notin Members(thread_pool'))
              => tpc[t] \in {"done", "crashed"}]_vars

\* C16. The argument of time.sleep is positive and at most the period: a
\* thread that holds the lock with a failing gate is about to sleep for
\* period_in_seconds - (now - last_execution_time), which lies in
\* (0, period_in_seconds]; no thread dies of time.sleep's ValueError.
C16_SleepDurationPositive ==
    \A t \in Calls :
        /\ tpc[t] # "crashed"
        /\ (tpc[t] = "acquired" /\ ~GatePasses(last_execution_time[t], now[t], period)) =>
               /\ SleepDuration(last_execution_time[t], now[t], period) > 0
               /\ SleepDuration(last_execution_time[t], now[t], period) <= PeriodInSeconds(period)

\* C16 witness: a thread is gated out part of the way into the window, so
\* that its sleep is shorter than the period.
C16_Witness ==
    \E t \in Calls :
        /\ tpc[t] = "acquired"
        /\ ~GatePasses(last_execution_time[t], now[t], period)
        /\ now[t] > last_execution_time[t]

\* C17. With period = 0 the gate passes on every check and no thread sleeps.
C17_ZeroPeriodNeverThrottles ==
    period = 0 =>
        \A t \in Calls :
            /\ tpc[t] \notin {"sleeping", "crashed"}
            /\ tpc[t] = "acquired" => GatePasses(last_execution_time[t], now[t], period)

\* C17 witness: with period = 0 a thread passes the gate at the very time
\* the previous execution wrote exec_list[0].
C17_Witness ==
    /\ period = 0
    /\ \E t \in Calls :
           /\ tpc[t] = "acquired"
           /\ last_execution_time[t] # None
           /\ now[t] = last_execution_time[t]

\* C18. The window is measured from the end of the previous execution: an
\* execution begins only after every earlier one has written exec_list[0],
\* and at least period after that write.
C18_WindowFromEnd ==
    \A j, k \in DOMAIN execLog :
        j < k =>
            /\ execLog[j].finish # None
            /\ execLog[k].begin - execLog[j].finish >= PeriodInSeconds(period)

\* C18 witness: under a positive period an execution that took time was
\* followed by another one.
C18_Witness ==
    /\ period > 0
    /\ \E j, k \in DOMAIN execLog :
           j < k /\ execLog[j].finish > execLog[j].begin

\* The threads that are inside a section of code bracketed by an acquire
\* and a release of exec_list[1].
InCriticalSection ==
    {Invoker(c) : c \in {d \in Calls : ipc[d] \in {"prune", "check"}}}
        \cup {Task(t) : t \in {u \in Calls : tpc[u] \in {"acquired", "executing", "finally"}}}

\* C13. Every access to the shared state is made by the holder of the lock,
\* and there is at most one holder: exec_list[0] is written only by a thread
\* that holds the lock, read (line 55) only in a step that leaves the reader
\* holding it; thread_pool is pruned, checked and appended to only by the
\* caller that holds it; a thread inside a critical section is the holder.
C13_SharedStateUnderLock ==
    [][/\ lastExec' # lastExec => \E t \in Calls : lock = Task(t) /\ tpc[t] = "finally"
       /\ thread_pool' # thread_pool => \E c \in Calls : lock = Invoker(c) /\ ipc[c] \in {"prune", "check"}
       /\ \A t \in Calls : (tpc[t] # "acquired" /\ tpc'[t] = "acquired") => lock' = Task(t)
       /\ \A c \in Calls : (ipc[c] \in {"prune", "check"} /\ ipc'[c] # ipc[c]) => lock = Invoker(c)
       /\ InCriticalSection' \subseteq {lock'}]_vars

\* C13 witness: a caller holds the lock at the capacity check while a
\* started thread polls for it.
C13_Witness ==
    \E c, t \in Calls : ipc[c] = "check" /\ lock = Invoker(c) /\ tpc[t] = "spin"

\* The steps of a thread: Registered, Spinning, (gated out, Sleeping,
\* Spinning)*, Executing, Completed; "acquired" is the gate check under the
\* lock, "finally" and "exiting" are the end of the executing step.
TaskTransitions ==
    { <<"none", "registered">>, <<"registered", "spin">>, <<"spin", "acquired">>,
      <<"acquired", "sleeping">>, <<"sleeping", "spin">>, <<"acquired", "executing">>,
      <<"executing", "finally">>, <<"finally", "exiting">>, <<"exiting", "done">> }

\* C15. Every thread follows the state machine and calls current_func exactly
\* once, in the step that enters Executing: a step that moves no thread
\* adds no record to execLog; a step that moves a thread follows
\* TaskTransitions (so a Completed thread never moves), appends that thread's
\* first record to execLog when it enters Executing and adds none otherwise;
\* a completing thread has exactly one record; and no step that moves a
\* thread or changes the lock leaves the lock with a Completed thread.
C15_TaskStateMachine ==
    [][/\ (tpc' # tpc \/ lock' # lock) =>
              \A t \in Calls : tpc'[t] = "done" => lock' # Task(t)
       /\ IF tpc' = tpc
          THEN Len(execLog') = Len(execLog)
          ELSE \A t \in Calls :
                   tpc'[t] # tpc[t] =>
                       /\ <<tpc[t], tpc'[t]>> \in TaskTransitions
                       /\ IF tpc'[t] = "executing"
                          THEN /\ Len(execLog') = Len(execLog) + 1
                               /\ SubSeq(execLog', 1, Len(execLog)) = execLog
                               /\ execLog'[Len(execLog')].task = t
                               /\ ExecCount(t) = 0
                          ELSE Len(execLog') = Len(execLog)
                       /\ tpc'[t] = "done" => ExecCount(t)' = 1]_vars

\* C15 witness: a thread has executed once and completed while another
\* thread, gated out, is on its round through Sleeping.
C15_Witness ==
    \E t, u \in Calls :
        /\ tpc[t] = "done"
        /\ ExecCount(t) = 1
        /\ tpc[u] = "sleeping"

\* C19. A thread is gated out again only because another thread executed:
\* when a thread that was gated out reads, after its sleep, the same
\* exec_list[0] as at its previous check, the gate passes; and a thread's
\* failed gate checks never number more than the executions begun by other
\* threads since it was registered, plus one (credit stays >= 0).
C19_GatedOutOnlyByOthers ==
    [][\A t \in Calls :
          /\ (/\ tpc[t] = "spin" /\ tpc'[t] = "acquired"
              /\ last_execution_time[t] # None
              /\ last_execution_time'[t] = last_execution_time[t])
                 => GatePasses(last_execution_time'[t], now'[t], period)
          /\ credit'[t] >= 0]_vars

\* C19 witness: a thread that was gated out has slept, reacquired the lock
\* and read the same exec_list[0] again; its one failure used up its credit.
C19_Witness ==
    \E t \in Calls :
        /\ tpc[t] = "acquired"
        /\ credit[t] = 0
        /\ period > 0
        /\ last_execution_time[t] # None
        /\ now[t] - last_execution_time[t] >= PeriodInSeconds(period)

\* Call c, made by thread t from within current_func, waits at line 95.
Blocked(c, t) == inside[c] = t /\ ipc[c] = "lock"

\* C20. throttled_function is not re-entrant from current_func: once
\* current_func, run by thread t, waits in a call of throttled_function,
\* t is executing and holds the lock, and every step leaves it so: the call
\* stays at lock.acquire(), current_func does not return, the lock is not
\* released, no execution begins and exec_list[0] is not written.
C20_ReentrantCallDeadlocks ==
    [][\A c, t \in Calls :
          Blocked(c, t) =>
              /\ tpc[t] = "executing" /\ lock = Task(t)
              /\ Blocked(c, t)'
              /\ tpc'[t] = "executing" /\ lock' = Task(t)
              /\ execLog' = execLog
              /\ lastExec' = lastExec]_vars

\* C20 witness: the call made from within current_func is still waiting
\* after time has passed since the execution began.
C20_Witness ==
    \E c, t \in Calls :
        /\ Blocked(c, t)
        /\ execLog[Len(execLog)].task = t
        /\ clock > execLog[Len(execLog)].begin

====
